---- MODULE Spec2Model ----
(***************************************************************************)
(* Model of the ruleset request builders of terraform-provider-github:     *)
(* buildRulesetRequest, expandBypassActors, expandConditions, expandRules, *)
(* of flattenAndSetRulesetConditions, and of the paging loop of            *)
(* resourceGithubTeamOrganizationRoleAssignmentRead.                       *)
(*                                                                         *)
(* Go values are modelled as follows.                                      *)
(*   - a slice or pointer is a record with a field isNil; a non-nil slice  *)
(*     carries its elements in elems, a non-nil pointer its fields;        *)
(*   - an error is a string, NoErr for nil;                                *)
(*   - a Go string that the code takes apart (a status-check token) is a   *)
(*     sequence of one-character strings;                                  *)
(*   - a configuration field is what the schema reader holds for it: the   *)
(*     flag exists and the value, which is the zero value when the field   *)
(*     is not set;                                                         *)
(*   - arg holds the objects as they were passed to the call, d and        *)
(*     ruleset hold them as the call leaves them;                          *)
(*   - encoderFails tells whether json.Marshal returns an error.           *)
(***************************************************************************)
EXTENDS Integers, Sequences, FiniteSets, TLC

VARIABLES op, d, ret, called, arg, ruleset, encoderFails,
          pc, pages, teamSlug, optionsPage, foundTeam, id, readErr, fetched

\* the state of a call of resourceGithubTeamOrganizationRoleAssignmentRead
readVars == <<pc, pages, teamSlug, optionsPage, foundTeam, id, readErr, fetched>>

vars == <<op, d, ret, called, arg, ruleset, encoderFails, readVars>>

(***************************************************************************)
(* Bounds of the model.                                                    *)
(***************************************************************************)
\* longest list of blocks of one kind in a configuration
MaxBlocks == 2
\* largest set of status-check tokens in one block
MaxChecks == 2

(***************************************************************************)
(* Go values.                                                              *)
(***************************************************************************)
NoErr == "nil"

NilSlice == [isNil |-> TRUE, elems |-> <<>>]

Slice(s) == [isNil |-> FALSE, elems |-> s]

NilPtr == [isNil |-> TRUE]

\* a nil element of a []interface{} block list
NilElem == [nil |-> TRUE]

SeqsUpTo(S, n) == UNION {[1..k -> S] : k \in 0..n}

SubsetsUpTo(S, n) == {x \in SUBSET S : Cardinality(x) <= n}

\* schema.Set.List(): every element once, in an order the caller cannot rely on
Lists(S) == {l \in [1..Cardinality(S) -> S] : \A x \in S : \E i \in 1..Cardinality(S) : l[i] = x}

\* ok taken to mean that the field is set, whatever its value
GetOk_ExistsOnly(f, zero) == [v |-> f.value, ok |-> f.exists]

\* d.GetOk(key): the value, and whether it is set to a non-zero value
GetOk(f, zero) == [v |-> f.value, ok |-> f.exists /\ f.value # zero]

(***************************************************************************)
(* strings.SplitN(s, ":", 2) and strconv.Atoi on character sequences.      *)
(***************************************************************************)
Digits == {"0", "1", "2", "3", "4", "5", "6", "7", "8", "9"}

DigitVal == [c \in Digits |->
    CASE c = "0" -> 0 [] c = "1" -> 1 [] c = "2" -> 2 [] c = "3" -> 3 [] c = "4" -> 4
      [] c = "5" -> 5 [] c = "6" -> 6 [] c = "7" -> 7 [] c = "8" -> 8 [] c = "9" -> 9]

\* index of the first sep in s, 0 when there is none
IndexOf(s, sep) == IF \E i \in 1..Len(s) : s[i] = sep
                   THEN CHOOSE i \in 1..Len(s) : s[i] = sep /\ \A j \in 1..(i - 1) : s[j] # sep
                   ELSE 0

\* the split made at every sep, as strings.Split does
RECURSIVE SplitN2_EverySeparator(_, _)
SplitN2_EverySeparator(s, sep) ==
    LET i == IndexOf(s, sep)
    IN IF i = 0 THEN <<s>>
       ELSE <<SubSeq(s, 1, i - 1)>> \o SplitN2_EverySeparator(SubSeq(s, i + 1, Len(s)), sep)

\* strings.SplitN(s, sep, 2): the split made at the first sep only
SplitN2(s, sep) == LET i == IndexOf(s, sep)
                   IN IF i = 0 THEN <<s>>
                      ELSE <<SubSeq(s, 1, i - 1), SubSeq(s, i + 1, Len(s))>>

RECURSIVE DecimalValue(_)
DecimalValue(s) == IF Len(s) = 0 THEN 0
                   ELSE 10 * DecimalValue(SubSeq(s, 1, Len(s) - 1)) + DigitVal[s[Len(s)]]

\* strconv.Atoi: an optional sign, then one or more decimal digits.  The model's
\* tokens are far shorter than the 19 digits at which the range check matters.
Atoi(s) == LET signed == Len(s) > 0 /\ s[1] \in {"+", "-"}
               body == IF signed THEN Tail(s) ELSE s
           IN IF Len(body) = 0 \/ \E i \in 1..Len(body) : body[i] \notin Digits
              THEN [n |-> 0, err |-> TRUE]
              ELSE [n |-> IF signed /\ s[1] = "-" THEN 0 - DecimalValue(body) ELSE DecimalValue(body),
                    err |-> FALSE]

(***************************************************************************)
(* Errors returned by the builders.  The integration-id message carries    *)
(* the offending text in the code; the model keeps the kind of error only. *)
(***************************************************************************)
ErrDuplicateConditions == "cannot specify conditions more than one time"

ErrDuplicatePullRequest == "cannot specify rule_pull_request more than one time"

ErrDuplicateStatusChecks == "cannot specify rule_required_status_checks more than one time"

ErrParseCheck == "could not parse check. Expected context:integration_id or context"

ErrIntegrationId == "could not parse as valid integration_id"

(***************************************************************************)
(* expandBypassActors.  actorList is the order in which the set is listed. *)
(***************************************************************************)
expandBypassActors(cfg, actorList) ==
    LET g == GetOk(cfg.bypass_actors, {})
    IN IF g.ok
       THEN [val |-> Slice([i \in 1..Len(actorList) |->
                              [ActorID |-> actorList[i].actor_id,
                               ActorType |-> actorList[i].actor_type]]),
             err |-> NoErr]
       ELSE [val |-> NilSlice, err |-> NoErr]

(***************************************************************************)
(* expandConditions.                                                       *)
(***************************************************************************)
\* expandNestedSet(m, key): the strings of the set-valued field key of m
expandNestedSet(m, key) == m[key]

\* the duplicate check left out: the first block is used
expandConditions_NoDuplicateCheck(cfg) ==
    LET g == GetOk(cfg.conditions, <<>>)
        vL == g.v
    IN IF g.ok /\ Len(vL) > 0 /\ ~vL[1].nil
       THEN [val |-> [isNil |-> FALSE,
                      Include |-> expandNestedSet(vL[1], "include"),
                      Exclude |-> expandNestedSet(vL[1], "exclude")],
             err |-> NoErr]
       ELSE [val |-> NilPtr, err |-> NoErr]

\* a list that is set and empty taken for a present condition
expandConditions_EmptyListIsSet(cfg) ==
    LET vL == cfg.conditions.value
    IN IF cfg.conditions.exists
       THEN IF Len(vL) > 1
            THEN [val |-> NilPtr, err |-> ErrDuplicateConditions]
            ELSE IF Len(vL) = 0
                 THEN [val |-> [isNil |-> FALSE, Include |-> {}, Exclude |-> {}], err |-> NoErr]
                 ELSE IF vL[1].nil
                      THEN [val |-> NilPtr, err |-> NoErr]
                      ELSE [val |-> [isNil |-> FALSE,
                                     Include |-> expandNestedSet(vL[1], "include"),
                                     Exclude |-> expandNestedSet(vL[1], "exclude")],
                            err |-> NoErr]
       ELSE [val |-> NilPtr, err |-> NoErr]

\* the nil check of the first element made before the duplicate check
expandConditions_NilCheckFirst(cfg) ==
    LET g == GetOk(cfg.conditions, <<>>)
        vL == g.v
    IN IF g.ok
       THEN IF vL[1].nil
            THEN [val |-> NilPtr, err |-> NoErr]
            ELSE IF Len(vL) > 1
                 THEN [val |-> NilPtr, err |-> ErrDuplicateConditions]
                 ELSE [val |-> [isNil |-> FALSE,
                                Include |-> expandNestedSet(vL[1], "include"),
                                Exclude |-> expandNestedSet(vL[1], "exclude")],
                       err |-> NoErr]
       ELSE [val |-> NilPtr, err |-> NoErr]

expandConditions(cfg) ==
    LET g == GetOk(cfg.conditions, <<>>)
        vL == g.v
    IN IF g.ok
       THEN IF Len(vL) > 1
            THEN [val |-> NilPtr, err |-> ErrDuplicateConditions]
            ELSE IF Len(vL) = 0
                 THEN [val |-> [isNil |-> FALSE, Include |-> {}, Exclude |-> {}], err |-> NoErr]
                 ELSE IF vL[1].nil
                      THEN [val |-> NilPtr, err |-> NoErr]
                      ELSE [val |-> [isNil |-> FALSE,
                                     Include |-> expandNestedSet(vL[1], "include"),
                                     Exclude |-> expandNestedSet(vL[1], "exclude")],
                            err |-> NoErr]
       ELSE [val |-> NilPtr, err |-> NoErr]

(***************************************************************************)
(* expandRules, in the order of the code: the toggles, then                *)
(* required_deployments, pull_request and required_status_checks.          *)
(***************************************************************************)
\* the toggles listed with deletion before creation
rules_toggleable_DeletionFirst == <<"deletion", "creation", "required_linear_history",
                                    "required_signatures", "non_fast_forward">>

rules_toggleable == <<"creation", "deletion", "required_linear_history",
                      "required_signatures", "non_fast_forward">>

\* fmt.Sprintf("rule_%s", ruleName)
RuleKey == [creation |-> "rule_creation", deletion |-> "rule_deletion",
            required_linear_history |-> "rule_required_linear_history",
            required_signatures |-> "rule_required_signatures",
            non_fast_forward |-> "rule_non_fast_forward"]

ErrEncoding == "json: unsupported value"

\* json.Marshal(obj): the encoded object and no error, or no bytes and an error
Marshal(obj) == IF encoderFails THEN [bytes |-> <<>>, err |-> ErrEncoding]
                ELSE [bytes |-> obj, err |-> NoErr]

\* bytes, _ := json.Marshal(obj); rawParams := json.RawMessage(bytes); &rawParams
RawParams(obj) == [isNil |-> FALSE, json |-> Marshal(obj).bytes]

ToggleRules(cfg) ==
    LET on == SelectSeq(rules_toggleable, LAMBDA ruleName : cfg[RuleKey[ruleName]])
    IN [i \in 1..Len(on) |-> [Type |-> on[i], Parameters |-> NilPtr]]

\* the required_deployments entry built like a toggle entry, without parameters
DeploymentRules_NoParameters(cfg, envList) ==
    LET g == GetOk(cfg.rule_required_deployments, {})
    IN IF g.ok
       THEN <<[Type |-> "required_deployments", Parameters |-> NilPtr]>>
       ELSE <<>>

DeploymentRules(cfg, envList) ==
    LET g == GetOk(cfg.rule_required_deployments, {})
    IN IF g.ok
       THEN <<[Type |-> "required_deployments",
               Parameters |-> RawParams([required_deployment_environments |-> envList])]>>
       ELSE <<>>

\* the duplicate check off by one: two blocks pass, the first is used
PullRequestRules_AllowsTwo(cfg) ==
    LET g == GetOk(cfg.rule_pull_request, <<>>)
        vL == g.v
    IN IF ~g.ok THEN [rules |-> <<>>, err |-> NoErr]
       ELSE IF Len(vL) > 2 THEN [rules |-> <<>>, err |-> ErrDuplicatePullRequest]
       ELSE IF Len(vL) = 0 \/ vL[1].nil THEN [rules |-> <<>>, err |-> NoErr]
       ELSE [rules |-> <<[Type |-> "pull_request",
                          Parameters |-> RawParams(
                            [dismiss_stale_reviews_on_push |-> vL[1].dismiss_stale_reviews_on_push,
                             require_code_owner_review |-> vL[1].require_code_owner_review,
                             require_last_push_approval |-> vL[1].require_last_push_approval,
                             required_approving_review_count |-> vL[1].required_approving_review_count,
                             required_review_thread_resolution |-> vL[1].required_review_thread_resolution])]>>,
             err |-> NoErr]

PullRequestRules(cfg) ==
    LET g == GetOk(cfg.rule_pull_request, <<>>)
        vL == g.v
    IN IF ~g.ok THEN [rules |-> <<>>, err |-> NoErr]
       ELSE IF Len(vL) > 1 THEN [rules |-> <<>>, err |-> ErrDuplicatePullRequest]
       ELSE IF Len(vL) = 0 \/ vL[1].nil THEN [rules |-> <<>>, err |-> NoErr]
       ELSE LET m == vL[1]
            IN [rules |-> <<[Type |-> "pull_request",
                             Parameters |-> RawParams(
                               [dismiss_stale_reviews_on_push |-> m.dismiss_stale_reviews_on_push,
                                require_code_owner_review |-> m.require_code_owner_review,
                                require_last_push_approval |-> m.require_last_push_approval,
                                required_approving_review_count |-> m.required_approving_review_count,
                                required_review_thread_resolution |-> m.required_review_thread_resolution])]>>,
                err |-> NoErr]

\* the context taken to be the whole token instead of the text before the ':'
ParseCheck_WholeTokenContext(statusCheck) ==
    LET parts == SplitN2(statusCheck, ":")
        cIntegrationId == IF Len(parts) = 1 THEN <<>> ELSE parts[2]
    IN IF cIntegrationId # <<>>
       THEN LET a == Atoi(cIntegrationId)
            IN IF a.err
               THEN [err |-> ErrIntegrationId]
               ELSE [err |-> NoErr,
                     check |-> [Context |-> statusCheck,
                                IntegrationID |-> [isNil |-> FALSE, v |-> a.n]]]
       ELSE [err |-> NoErr, check |-> [Context |-> statusCheck, IntegrationID |-> NilPtr]]

\* one status-check token: "context" or "context:integration_id"
ParseCheck(statusCheck) ==
    LET parts == SplitN2(statusCheck, ":")
        cContext == parts[1]
        cIntegrationId == IF Len(parts) = 1 THEN <<>> ELSE parts[2]
    IN IF Len(parts) \notin {1, 2}
       THEN [err |-> ErrParseCheck]
       ELSE IF cIntegrationId # <<>>
            THEN LET a == Atoi(cIntegrationId)
                 IN IF a.err
                    THEN [err |-> ErrIntegrationId]
                    ELSE [err |-> NoErr,
                          check |-> [Context |-> cContext,
                                     IntegrationID |-> [isNil |-> FALSE, v |-> a.n]]]
            ELSE [err |-> NoErr, check |-> [Context |-> cContext, IntegrationID |-> NilPtr]]

\* the loop over the tokens: the first token that fails ends the build
RECURSIVE ParseChecks(_, _)
ParseChecks(checkList, acc) ==
    IF checkList = <<>> THEN [list |-> acc, err |-> NoErr]
    ELSE LET r == ParseCheck(Head(checkList))
         IN IF r.err # NoErr THEN [list |-> <<>>, err |-> r.err]
            ELSE ParseChecks(Tail(checkList), Append(acc, r.check))

\* json.Marshal of one check: integration_id is omitted when the pointer is nil
MarshalCheck(c) == IF c.IntegrationID.isNil
                   THEN [context |-> c.Context]
                   ELSE [context |-> c.Context, integration_id |-> c.IntegrationID.v]

StatusCheckRules(cfg, checkList) ==
    LET g == GetOk(cfg.rule_required_status_checks, <<>>)
        vL == g.v
    IN IF ~g.ok THEN [rules |-> <<>>, err |-> NoErr]
       ELSE IF Len(vL) > 1 THEN [rules |-> <<>>, err |-> ErrDuplicateStatusChecks]
       ELSE IF Len(vL) = 0 \/ vL[1].nil THEN [rules |-> <<>>, err |-> NoErr]
       ELSE LET m == vL[1]
                p == ParseChecks(checkList, <<>>)
            IN IF p.err # NoErr THEN [rules |-> <<>>, err |-> p.err]
               ELSE [rules |-> <<[Type |-> "required_status_checks",
                                  Parameters |-> RawParams(
                                    [required_status_checks |->
                                       [i \in 1..Len(p.list) |-> MarshalCheck(p.list[i])],
                                     strict_required_status_checks_policy |->
                                       m.strict_required_status_checks_policy])]>>,
                     err |-> NoErr]

\* the status-check entry appended before the pull-request entry
expandRules_StatusChecksFirst(cfg, envList, checkList) ==
    LET pr == PullRequestRules(cfg)
        sc == StatusCheckRules(cfg, checkList)
    IN IF pr.err # NoErr THEN [val |-> NilSlice, err |-> pr.err]
       ELSE IF sc.err # NoErr THEN [val |-> NilSlice, err |-> sc.err]
       ELSE [val |-> Slice(ToggleRules(cfg) \o DeploymentRules(cfg, envList) \o sc.rules \o pr.rules),
             err |-> NoErr]

expandRules(cfg, envList, checkList) ==
    LET tg == ToggleRules(cfg)
        dp == DeploymentRules(cfg, envList)
        pr == PullRequestRules(cfg)
        sc == StatusCheckRules(cfg, checkList)
    IN IF pr.err # NoErr THEN [val |-> NilSlice, err |-> pr.err]
       ELSE IF sc.err # NoErr THEN [val |-> NilSlice, err |-> sc.err]
       ELSE [val |-> Slice(tg \o dp \o pr.rules \o sc.rules), err |-> NoErr]

(***************************************************************************)
(* buildRulesetRequest.  calls lists the sub-builders it invoked.          *)
(***************************************************************************)
\* the rules built, and their error returned, before the conditions
buildRulesetRequest_RulesFirst(cfg, sourceType, actorList, envList, checkList) ==
    LET ba == expandBypassActors(cfg, actorList)
        co == expandConditions(cfg)
        ru == expandRules(cfg, envList, checkList)
    IN IF ru.err # NoErr
       THEN [val |-> NilPtr, err |-> ru.err,
             calls |-> <<"expandBypassActors", "expandRules">>]
       ELSE IF co.err # NoErr
       THEN [val |-> NilPtr, err |-> co.err,
             calls |-> <<"expandBypassActors", "expandRules", "expandConditions">>]
       ELSE [val |-> [isNil |-> FALSE,
                      Name |-> cfg.name,
                      Target |-> cfg.target,
                      SourceType |-> sourceType,
                      Enforcement |-> cfg.enforcement,
                      BypassActors |-> ba.val,
                      Conditions |-> [isNil |-> FALSE, RefName |-> co.val],
                      Rules |-> ru.val],
             err |-> NoErr,
             calls |-> <<"expandBypassActors", "expandRules", "expandConditions">>]

buildRulesetRequest(cfg, sourceType, actorList, envList, checkList) ==
    LET ba == expandBypassActors(cfg, actorList)
        co == expandConditions(cfg)
        ru == expandRules(cfg, envList, checkList)
    IN IF ba.err # NoErr
       THEN [val |-> NilPtr, err |-> ba.err, calls |-> <<"expandBypassActors">>]
       ELSE IF co.err # NoErr
       THEN [val |-> NilPtr, err |-> co.err,
             calls |-> <<"expandBypassActors", "expandConditions">>]
       ELSE IF ru.err # NoErr
       THEN [val |-> NilPtr, err |-> ru.err,
             calls |-> <<"expandBypassActors", "expandConditions", "expandRules">>]
       ELSE [val |-> [isNil |-> FALSE,
                      Name |-> cfg.name,
                      Target |-> cfg.target,
                      SourceType |-> sourceType,
                      Enforcement |-> cfg.enforcement,
                      BypassActors |-> ba.val,
                      Conditions |-> [isNil |-> FALSE, RefName |-> co.val],
                      Rules |-> ru.val],
             err |-> NoErr,
             calls |-> <<"expandBypassActors", "expandConditions", "expandRules">>]

(***************************************************************************)
(* flattenAndSetRulesetConditions.  d.Set stores the include and exclude   *)
(* strings in the set-valued fields of the block.                          *)
(***************************************************************************)
Range(s) == {s[i] : i \in 1..Len(s)}

\* ruleset.GetConditions(): nil for a nil ruleset
GetConditions(rs) == IF rs.isNil THEN NilPtr ELSE rs.Conditions

\* rc.GetRefName(): nil for nil conditions
GetRefName(rc) == IF rc.isNil THEN NilPtr ELSE rc.RefName

\* a write that also resets another field of the state
ResourceDataSet_ResetsName(cfg, key, value) ==
    [cfg EXCEPT ![key] = [exists |-> TRUE, value |-> value], !.name = ""]

\* d.Set(key, value): the configuration with the field set to the value
ResourceDataSet(cfg, key, value) == [cfg EXCEPT ![key] = [exists |-> TRUE, value |-> value]]

\* nothing written when the ruleset has no ref-name condition
flattenAndSetRulesetConditions_KeepsOld(cfg, rs) ==
    LET rc == GetConditions(rs)
    IN IF ~rc.isNil /\ ~GetRefName(rc).isNil
       THEN [d |-> ResourceDataSet(cfg, "conditions",
                                   <<[nil |-> FALSE,
                                      include |-> Range(GetRefName(rc).Include),
                                      exclude |-> Range(GetRefName(rc).Exclude)]>>),
             err |-> NoErr]
       ELSE [d |-> cfg, err |-> NoErr]

\* the include strings written to exclude and the exclude strings to include
flattenAndSetRulesetConditions_SwapsSides(cfg, rs) ==
    LET rc == GetConditions(rs)
    IN IF ~rc.isNil /\ ~GetRefName(rc).isNil
       THEN [d |-> ResourceDataSet(cfg, "conditions",
                                   <<[nil |-> FALSE,
                                      include |-> Range(GetRefName(rc).Exclude),
                                      exclude |-> Range(GetRefName(rc).Include)]>>),
             err |-> NoErr]
       ELSE [d |-> ResourceDataSet(cfg, "conditions", <<>>), err |-> NoErr]

flattenAndSetRulesetConditions(cfg, rs) ==
    LET rc == GetConditions(rs)
    IN IF ~rc.isNil /\ ~GetRefName(rc).isNil
       THEN [d |-> ResourceDataSet(cfg, "conditions",
                             <<[nil |-> FALSE,
                                include |-> Range(GetRefName(rc).Include),
                                exclude |-> Range(GetRefName(rc).Exclude)]>>),
             err |-> NoErr]
       ELSE [d |-> ResourceDataSet(cfg, "conditions", <<>>), err |-> NoErr]

(***************************************************************************)
(* The configurations the builders are called on.                          *)
(***************************************************************************)
Unset(zero) == [exists |-> FALSE, value |-> zero]

IsSet(v) == [exists |-> TRUE, value |-> v]

\* a set-valued field: not set, or set to a subset of S
SetField(S) == {Unset({})} \cup {IsSet(v) : v \in SUBSET S}

\* a block list: not set, or a list of at most MaxBlocks elements of S
ListField(S) == {Unset(<<>>)} \cup {IsSet(v) : v \in SeqsUpTo(S, MaxBlocks)}

Actors == {[actor_id |-> 1, actor_type |-> "Team"],
           [actor_id |-> 5, actor_type |-> "Integration"]}

Envs == {"prod", "staging"}

Patterns == {"refs/heads/main"}

CondElems == {NilElem} \cup
             {[nil |-> FALSE, include |-> i, exclude |-> e] : i \in SUBSET Patterns, e \in SUBSET Patterns}

PullRequestElems ==
    {NilElem,
     [nil |-> FALSE, dismiss_stale_reviews_on_push |-> TRUE, require_code_owner_review |-> FALSE,
      require_last_push_approval |-> TRUE, required_approving_review_count |-> 2,
      required_review_thread_resolution |-> FALSE]}

\* "ci/a", "ci/b:99", "ci/test:abc", "ci/test:", "a:1:2", "", ":5", "b:-7"
Tokens == {<<"c", "i", "/", "a">>,
           <<"c", "i", "/", "b", ":", "9", "9">>,
           <<"c", "i", "/", "t", "e", "s", "t", ":", "a", "b", "c">>,
           <<"c", "i", "/", "t", "e", "s", "t", ":">>,
           <<"a", ":", "1", ":", "2">>,
           <<>>,
           <<":", "5">>,
           <<"b", ":", "-", "7">>}

StatusCheckBlock(tokens, strict) ==
    [nil |-> FALSE, required_status_checks |-> tokens, strict_required_status_checks_policy |-> strict]

\* every block with at most MaxChecks tokens
StatusCheckBlocks == {StatusCheckBlock(t, s) : t \in SubsetsUpTo(Tokens, MaxChecks), s \in BOOLEAN}

GoodBlock == StatusCheckBlock({<<"c", "i", "/", "a">>, <<"c", "i", "/", "b", ":", "9", "9">>}, TRUE)

BadBlock == StatusCheckBlock({<<"c", "i", "/", "t", "e", "s", "t", ":", "a", "b", "c">>}, FALSE)

\* the elements of the status-check lists of every length
StatusCheckElems == {NilElem, GoodBlock}

ToggleKeys == {RuleKey[rules_toggleable[i]] : i \in 1..Len(rules_toggleable)}

Toggles == [ToggleKeys -> BOOLEAN]

Config(tg, ba, co, dp, pr, sc) ==
    [name |-> "main-protection", target |-> "branch", enforcement |-> "active",
     bypass_actors |-> ba, conditions |-> co,
     rule_creation |-> tg["rule_creation"],
     rule_deletion |-> tg["rule_deletion"],
     rule_required_linear_history |-> tg["rule_required_linear_history"],
     rule_required_signatures |-> tg["rule_required_signatures"],
     rule_non_fast_forward |-> tg["rule_non_fast_forward"],
     rule_required_deployments |-> dp,
     rule_pull_request |-> pr,
     rule_required_status_checks |-> sc]

AllOff == [k \in ToggleKeys |-> FALSE]

AllOn == [k \in ToggleKeys |-> TRUE]

\* every combination of the toggles with every shape of the structured blocks
ShapeConfigs == {Config(tg, Unset({}), Unset(<<>>), dp, pr, sc) :
                   tg \in Toggles, dp \in SetField(Envs),
                   pr \in ListField(PullRequestElems), sc \in ListField(StatusCheckElems)}

\* every single status-check block, with and without the other rules
CheckConfigs == {Config(tg, Unset({}), Unset(<<>>), Unset({}), pr, IsSet(<<b>>)) :
                   tg \in {AllOff, AllOn},
                   pr \in {Unset(<<>>)} \cup {IsSet(<<x>>) : x \in PullRequestElems},
                   b \in StatusCheckBlocks}

RulesConfigs == ShapeConfigs \cup CheckConfigs

\* the rule fields of the configurations buildRulesetRequest is called on
BuildRuleParts ==
    {<<tg, pr, sc>> : tg \in {AllOff, AllOn},
                      pr \in {Unset(<<>>), IsSet(<<NilElem, NilElem>>)}
                              \cup {IsSet(<<x>>) : x \in PullRequestElems},
                      sc \in {Unset(<<>>), IsSet(<<NilElem, NilElem>>), IsSet(<<BadBlock>>)}
                              \cup {IsSet(<<b>>) : b \in StatusCheckElems}}

BuildConfigs == {Config(r[1], ba, co, Unset({}), r[2], r[3]) :
                   r \in BuildRuleParts, ba \in SetField(Actors), co \in ListField(CondElems)}

BypassConfigs == {Config(AllOff, ba, Unset(<<>>), Unset({}), Unset(<<>>), Unset(<<>>)) :
                    ba \in SetField(Actors)}

ConditionConfigs == {Config(AllOff, Unset({}), co, Unset({}), Unset(<<>>), Unset(<<>>)) :
                       co \in ListField(CondElems)}

\* the tokens of the status-check block the code reads, if it reads one
StatusCheckSet(cfg) ==
    LET vL == cfg.rule_required_status_checks.value
    IN IF Len(vL) = 1 /\ ~vL[1].nil THEN vL[1].required_status_checks ELSE {}

SourceTypes == {"Repository"}

\* longest include or exclude sequence of a remote ref-name condition
MaxPatterns == 2

RemotePatterns == {"refs/heads/main", "~DEFAULT_BRANCH"}

RefNames == {NilPtr} \cup
            {[isNil |-> FALSE, Include |-> i, Exclude |-> e] :
               i \in SeqsUpTo(RemotePatterns, MaxPatterns), e \in SeqsUpTo(RemotePatterns, MaxPatterns)}

\* the remote rulesets: nil, without conditions, with conditions
Rulesets == {NilPtr, [isNil |-> FALSE, Conditions |-> NilPtr]} \cup
            {[isNil |-> FALSE, Conditions |-> [isNil |-> FALSE, RefName |-> r]] : r \in RefNames}

\* no remote object is passed to the builders
NoRuleset == NilPtr

\* the configurations the flattener writes to: conditions not set, set and
\* empty, or holding one block from an earlier read
FlattenConfigs ==
    {Config(AllOff, Unset({}), co, Unset({}), Unset(<<>>), Unset(<<>>)) :
       co \in {Unset(<<>>), IsSet(<<>>),
               IsSet(<<[nil |-> FALSE, include |-> {"refs/heads/main"}, exclude |-> {}]>>)}}

(***************************************************************************)
(* The state machine: one call of a builder on one configuration.          *)
(***************************************************************************)
InitCall ==
    /\ op = "idle"
    /\ d = Config(AllOff, Unset({}), Unset(<<>>), Unset({}), Unset(<<>>), Unset(<<>>))
    /\ ret = [val |-> NilPtr, err |-> NoErr]
    /\ called = <<>>
    /\ arg = [d |-> d, ruleset |-> NoRuleset]
    /\ ruleset = NoRuleset

\* no call of the read function is in progress
InitNoRead ==
    /\ pc = "idle"
    /\ pages = <<>>
    /\ teamSlug = ""
    /\ optionsPage = 0
    /\ foundTeam = NilPtr
    /\ id = ""
    /\ readErr = NoErr
    /\ fetched = {}

\* json.Marshal does not fail on the parameter records, which hold strings,
\* booleans, integers and sequences of them
Init ==
    /\ InitCall
    /\ InitNoRead
    /\ encoderFails = FALSE

\* a builder is passed cfg, reads it and writes to no object
Passed(cfg) ==
    /\ arg' = [d |-> cfg, ruleset |-> NoRuleset]
    /\ d' = cfg
    /\ UNCHANGED <<ruleset, encoderFails, readVars>>

ExpandBypassActors ==
    /\ op = "idle"
    /\ \E cfg \in BypassConfigs : \E actorList \in Lists(cfg.bypass_actors.value) :
         /\ Passed(cfg)
         /\ ret' = expandBypassActors(cfg, actorList)
    /\ op' = "expandBypassActors"
    /\ called' = <<"expandBypassActors">>

ExpandConditions ==
    /\ op = "idle"
    /\ \E cfg \in ConditionConfigs :
         /\ Passed(cfg)
         /\ ret' = expandConditions(cfg)
    /\ op' = "expandConditions"
    /\ called' = <<"expandConditions">>

ExpandRules ==
    /\ op = "idle"
    /\ \E cfg \in RulesConfigs :
         \E envList \in Lists(cfg.rule_required_deployments.value),
            checkList \in Lists(StatusCheckSet(cfg)) :
           /\ Passed(cfg)
           /\ ret' = expandRules(cfg, envList, checkList)
    /\ op' = "expandRules"
    /\ called' = <<"expandRules">>

BuildRulesetRequest ==
    /\ op = "idle"
    /\ \E cfg \in BuildConfigs, sourceType \in SourceTypes :
         \E actorList \in Lists(cfg.bypass_actors.value),
            envList \in Lists(cfg.rule_required_deployments.value),
            checkList \in Lists(StatusCheckSet(cfg)) :
           LET r == buildRulesetRequest(cfg, sourceType, actorList, envList, checkList)
           IN /\ Passed(cfg)
              /\ ret' = [val |-> r.val, err |-> r.err]
              /\ called' = r.calls
    /\ op' = "buildRulesetRequest"

\* the flattener is passed a configuration and a remote ruleset
FlattenAndSetRulesetConditions ==
    /\ op = "idle"
    /\ \E cfg \in FlattenConfigs, rs \in Rulesets :
         LET r == flattenAndSetRulesetConditions(cfg, rs)
         IN /\ arg' = [d |-> cfg, ruleset |-> rs]
            /\ d' = r.d
            /\ ruleset' = rs
            /\ ret' = [val |-> NilPtr, err |-> r.err]
    /\ op' = "flattenAndSetRulesetConditions"
    /\ called' = <<"flattenAndSetRulesetConditions">>
    /\ UNCHANGED <<encoderFails, readVars>>

\* the builder run on the configuration the flattener has written
ExpandConditionsAfterFlatten ==
    /\ op = "flattenAndSetRulesetConditions"
    /\ ret' = expandConditions(d)
    /\ arg' = [d |-> d, ruleset |-> ruleset]
    /\ op' = "expandConditions"
    /\ called' = Append(called, "expandConditions")
    /\ UNCHANGED <<d, ruleset, encoderFails, readVars>>

Next ==
    \/ ExpandBypassActors
    \/ ExpandConditions
    \/ ExpandRules
    \/ BuildRulesetRequest
    \/ FlattenAndSetRulesetConditions
    \/ ExpandConditionsAfterFlatten

Spec == Init /\ [][Next]_vars

\* the same calls with an encoder that may fail: json.Marshal returns an
\* error for a value it cannot encode
InitEncoderFault ==
    /\ InitCall
    /\ InitNoRead
    /\ encoderFails \in BOOLEAN

SpecEncoderFault == InitEncoderFault /\ [][Next]_vars

(***************************************************************************)
(* Vocabulary of the properties.                                           *)
(***************************************************************************)
ToggleKinds == {"creation", "deletion", "required_linear_history",
                "required_signatures", "non_fast_forward"}

\* the position of a kind in the fixed order of the rules list
KindRank == [creation |-> 1, deletion |-> 2, required_linear_history |-> 3,
             required_signatures |-> 4, non_fast_forward |-> 5,
             required_deployments |-> 6, pull_request |-> 7, required_status_checks |-> 8]

ToggleOf(cfg) == [creation |-> cfg.rule_creation, deletion |-> cfg.rule_deletion,
                  required_linear_history |-> cfg.rule_required_linear_history,
                  required_signatures |-> cfg.rule_required_signatures,
                  non_fast_forward |-> cfg.rule_non_fast_forward]

NoStructuredBlock(cfg) == /\ ~cfg.rule_required_deployments.exists
                          /\ ~cfg.rule_pull_request.exists
                          /\ ~cfg.rule_required_status_checks.exists

\* the positions of the entries of a kind in a rules list
EntriesOf(rules, kind) == {i \in 1..Len(rules) : rules[i].Type = kind}

Returned == ret.val.elems

\* C1: with no structured block, expandRules returns without error exactly one
\* parameterless entry per toggle set true, none for a toggle set false, in the
\* order creation, deletion, required_linear_history, required_signatures,
\* non_fast_forward.
C1_ToggleEntries ==
    (op = "expandRules" /\ NoStructuredBlock(d)) =>
        /\ ret.err = NoErr
        /\ ~ret.val.isNil
        /\ \A i \in 1..Len(Returned) :
             Returned[i].Type \in ToggleKinds /\ Returned[i].Parameters.isNil
        /\ \A k \in ToggleKinds :
             Cardinality(EntriesOf(Returned, k)) = IF ToggleOf(d)[k] THEN 1 ELSE 0
        /\ \A i, j \in 1..Len(Returned) :
             i < j => KindRank[Returned[i].Type] < KindRank[Returned[j].Type]

C1_Witness ==
    /\ op = "expandRules"
    /\ NoStructuredBlock(d)
    /\ d.rule_deletion /\ d.rule_required_signatures /\ d.rule_non_fast_forward
    /\ ~d.rule_creation /\ ~d.rule_required_linear_history
    /\ Len(Returned) = 3

\* C2: whenever expandRules succeeds, the kinds of the returned list are a
\* subsequence of creation, deletion, required_linear_history,
\* required_signatures, non_fast_forward, required_deployments, pull_request,
\* required_status_checks: the ranks strictly increase, so no kind repeats and
\* every toggle entry precedes every structured entry.
C2_KindOrder ==
    (op = "expandRules" /\ ret.err = NoErr) =>
        /\ \A i \in 1..Len(Returned) : Returned[i].Type \in DOMAIN KindRank
        /\ \A i, j \in 1..Len(Returned) :
             i < j => KindRank[Returned[i].Type] < KindRank[Returned[j].Type]

C2_Witness ==
    /\ op = "expandRules"
    /\ ret.err = NoErr
    /\ Len(Returned) = 8

(***************************************************************************)
(* Status-check tokens, as the properties read them.                       *)
(***************************************************************************)
HasColon(t) == \E i \in 1..Len(t) : t[i] = ":"

FirstColon(t) == CHOOSE i \in 1..Len(t) : t[i] = ":" /\ \A j \in 1..Len(t) : t[j] = ":" => i <= j

BeforeColon(t) == [i \in 1..(FirstColon(t) - 1) |-> t[i]]

AfterColon(t) == [i \in 1..(Len(t) - FirstColon(t)) |-> t[FirstColon(t) + i]]

\* a base-10 integer: an optional sign and at least one digit
IsInteger(s) == LET ds == IF Len(s) > 0 /\ s[1] \in {"+", "-"} THEN Tail(s) ELSE s
                IN Len(ds) > 0 /\ \A i \in 1..Len(ds) : ds[i] \in Digits

IntegerOf(s) == IF s[1] = "-" THEN 0 - DecimalValue(Tail(s))
                ELSE IF s[1] = "+" THEN DecimalValue(Tail(s)) ELSE DecimalValue(s)

WellFormed(t) == ~HasColon(t) \/ IsInteger(AfterColon(t))

\* the check a well-formed token stands for
CheckOf(t) == IF HasColon(t)
              THEN [context |-> BeforeColon(t), integration_id |-> IntegerOf(AfterColon(t))]
              ELSE [context |-> t]

\* the configuration holds one non-nil status-check block and expandRules reads it
ReadsStatusCheckBlock(cfg) ==
    /\ cfg.rule_required_status_checks.exists
    /\ Len(cfg.rule_required_status_checks.value) = 1
    /\ ~cfg.rule_required_status_checks.value[1].nil
    /\ Len(cfg.rule_pull_request.value) <= 1

TheBlock == d.rule_required_status_checks.value[1]

\* C3: for one status-check block with well-formed tokens only, in a
\* configuration where expandRules reaches that block, expandRules emits
\* one required_status_checks entry whose parameters hold one check per
\* token, the check of a token without ':' having the token as context and no
\* integration id, the check of "c:N" having context c and integration id N;
\* the strict policy equals the configured flag; as a set the checks are the
\* same for every order in which the token set is listed.
C3_StatusCheckEntry ==
    (/\ op = "expandRules"
     /\ ReadsStatusCheckBlock(d)
     /\ \A t \in TheBlock.required_status_checks : WellFormed(t)) =>
        /\ ret.err = NoErr
        /\ Cardinality(EntriesOf(Returned, "required_status_checks")) = 1
        /\ \A i \in EntriesOf(Returned, "required_status_checks") :
             LET params == Returned[i].Parameters
                 checks == params.json.required_status_checks
             IN /\ ~params.isNil
                /\ params.json.strict_required_status_checks_policy
                     = TheBlock.strict_required_status_checks_policy
                /\ Len(checks) = Cardinality(TheBlock.required_status_checks)
                /\ {checks[k] : k \in 1..Len(checks)}
                     = {CheckOf(t) : t \in TheBlock.required_status_checks}

C3_Witness ==
    /\ op = "expandRules"
    /\ ReadsStatusCheckBlock(d)
    /\ TheBlock.required_status_checks
         = {<<"c", "i", "/", "a">>, <<"c", "i", "/", "b", ":", "9", "9">>}
    /\ TheBlock.strict_required_status_checks_policy
    /\ ret.err = NoErr
    /\ \E i \in 1..Len(Returned) :
         /\ Returned[i].Type = "required_status_checks"
         /\ Returned[i].Parameters.json.required_status_checks[1]
              = [context |-> <<"c", "i", "/", "b">>, integration_id |-> 99]

\* C4: when a token of the block holds a ':' and the text after the first ':'
\* is not a base-10 integer (also when that text is empty), the build fails
\* with the invalid-integration-id error and returns no rules.
C4_BadIntegrationIdFails ==
    (/\ op = "expandRules"
     /\ ReadsStatusCheckBlock(d)
     /\ \E t \in TheBlock.required_status_checks : HasColon(t) /\ ~IsInteger(AfterColon(t))) =>
        /\ ret.err = ErrIntegrationId
        /\ ret.val.isNil

\* C5: a pull_request block list, and likewise a required_status_checks block
\* list, of more than one element makes expandRules fail with the duplicate
\* error of that kind and return no list, whatever the other fields are; an
\* empty list emits no entry of the kind and raises no error for it.
C5_DuplicateBlockFails ==
    op = "expandRules" =>
        /\ Len(d.rule_pull_request.value) > 1 =>
             ret.err = ErrDuplicatePullRequest /\ ret.val.isNil
        /\ Len(d.rule_required_status_checks.value) > 1 =>
             ret.err = ErrDuplicateStatusChecks /\ ret.val.isNil
        /\ Len(d.rule_pull_request.value) = 0 =>
             /\ ret.err # ErrDuplicatePullRequest
             /\ ret.err = NoErr => EntriesOf(Returned, "pull_request") = {}
        /\ Len(d.rule_required_status_checks.value) = 0 =>
             /\ ret.err \notin {ErrDuplicateStatusChecks, ErrParseCheck, ErrIntegrationId}
             /\ ret.err = NoErr => EntriesOf(Returned, "required_status_checks") = {}

\* C5 as amended: as C5, except that a required_status_checks list of more
\* than one element yields its duplicate error only when the pull_request list
\* has at most one element; when both lists have more than one element the
\* pull_request duplicate error is returned.
C5_DuplicateBlockFailsInOrder ==
    op = "expandRules" =>
        /\ Len(d.rule_pull_request.value) > 1 =>
             ret.err = ErrDuplicatePullRequest /\ ret.val.isNil
        /\ (Len(d.rule_required_status_checks.value) > 1 /\ Len(d.rule_pull_request.value) <= 1) =>
             ret.err = ErrDuplicateStatusChecks /\ ret.val.isNil
        /\ Len(d.rule_pull_request.value) = 0 =>
             /\ ret.err # ErrDuplicatePullRequest
             /\ ret.err = NoErr => EntriesOf(Returned, "pull_request") = {}
        /\ Len(d.rule_required_status_checks.value) = 0 =>
             /\ ret.err \notin {ErrDuplicateStatusChecks, ErrParseCheck, ErrIntegrationId}
             /\ ret.err = NoErr => EntriesOf(Returned, "required_status_checks") = {}

C5_Witness ==
    /\ op = "expandRules"
    /\ Len(d.rule_pull_request.value) = 2
    /\ Len(d.rule_required_status_checks.value) = 2
    /\ d.rule_creation
    /\ d.rule_required_deployments.value # {}
    /\ ret.err = ErrDuplicatePullRequest
    /\ ret.val.isNil

\* C6: a pull_request or required_status_checks block list of exactly one
\* element, also a nil element, yields exactly one entry of that kind whenever
\* expandRules succeeds.
C6_OneBlockOneEntry ==
    (op = "expandRules" /\ ret.err = NoErr) =>
        /\ Len(d.rule_pull_request.value) = 1 =>
             Cardinality(EntriesOf(Returned, "pull_request")) = 1
        /\ Len(d.rule_required_status_checks.value) = 1 =>
             Cardinality(EntriesOf(Returned, "required_status_checks")) = 1

\* C7: with more than one conditions block, expandConditions fails with the
\* duplicate-conditions error, and buildRulesetRequest returns that error and
\* no request, whatever the other fields are.
C7_DuplicateConditionsFail ==
    (op \in {"expandConditions", "buildRulesetRequest"} /\ Len(d.conditions.value) > 1) =>
        /\ ret.err = ErrDuplicateConditions
        /\ ret.val.isNil

C7_Witness ==
    /\ op = "buildRulesetRequest"
    /\ Len(d.conditions.value) = 2
    /\ ~d.conditions.value[1].nil
    /\ d.bypass_actors.value # {}
    /\ Len(d.rule_pull_request.value) = 2
    /\ ret.err = ErrDuplicateConditions
    /\ ret.val.isNil

\* C8: with no conditions block, the request buildRulesetRequest returns has
\* no conditions object at all (not a conditions object without content).
C8_NoConditionsFieldAbsent ==
    (op = "buildRulesetRequest" /\ ~d.conditions.exists /\ ret.err = NoErr) =>
        ret.val.Conditions.isNil

ActorEntries(actors) == {[ActorID |-> a.actor_id, ActorType |-> a.actor_type] : a \in actors}

\* C9: expandBypassActors returns nil for an absent block, an empty non-nil
\* sequence for a present but empty block, and for a block of n actors a
\* sequence of n entries, one per actor with its id and type.
C9_BypassActorsThreeCases ==
    op = "expandBypassActors" =>
        /\ ret.err = NoErr
        /\ ~d.bypass_actors.exists => ret.val.isNil
        /\ (d.bypass_actors.exists /\ d.bypass_actors.value = {}) =>
             ~ret.val.isNil /\ Returned = <<>>
        /\ (d.bypass_actors.exists /\ d.bypass_actors.value # {}) =>
             /\ ~ret.val.isNil
             /\ Len(Returned) = Cardinality(d.bypass_actors.value)
             /\ {Returned[i] : i \in 1..Len(Returned)} = ActorEntries(d.bypass_actors.value)

\* C9 as amended: expandBypassActors returns nil for an absent block and also
\* for a present but empty block, and for a block of n >= 1 actors a non-nil
\* sequence of n entries, one per actor with its id and type.
C9_BypassActorsEmptyIsNil ==
    op = "expandBypassActors" =>
        /\ ret.err = NoErr
        /\ ~d.bypass_actors.exists => ret.val.isNil
        /\ (d.bypass_actors.exists /\ d.bypass_actors.value = {}) => ret.val.isNil
        /\ (d.bypass_actors.exists /\ d.bypass_actors.value # {}) =>
             /\ ~ret.val.isNil
             /\ Len(Returned) = Cardinality(d.bypass_actors.value)
             /\ {Returned[i] : i \in 1..Len(Returned)} = ActorEntries(d.bypass_actors.value)

C9_Witness ==
    /\ op = "expandBypassActors"
    /\ d.bypass_actors.exists
    /\ Cardinality(d.bypass_actors.value) = 2
    /\ ~ret.val.isNil
    /\ Len(Returned) = 2
    /\ Returned[1].ActorID = 5

\* C10: buildRulesetRequest returns a request and no error, or an error and no
\* request; the error is that of the first sub-builder to fail in the order
\* bypass actors, conditions, rules, and no sub-builder runs after it.
C10_FailFast ==
    op = "buildRulesetRequest" =>
        /\ (ret.err = NoErr) # ret.val.isNil
        /\ Len(d.conditions.value) > 1 =>
             /\ ret.err = ErrDuplicateConditions
             /\ called = <<"expandBypassActors", "expandConditions">>
        /\ Len(d.conditions.value) <= 1 =>
             /\ called = <<"expandBypassActors", "expandConditions", "expandRules">>
             /\ \E envList \in Lists(d.rule_required_deployments.value),
                   checkList \in Lists(StatusCheckSet(d)) :
                  ret.err = expandRules(d, envList, checkList).err

C10_Witness ==
    /\ op = "buildRulesetRequest"
    /\ Len(d.conditions.value) = 2
    /\ Len(d.rule_required_status_checks.value) = 2
    /\ ret.err = ErrDuplicateConditions
    /\ called = <<"expandBypassActors", "expandConditions">>

(***************************************************************************)
(* resourceGithubTeamOrganizationRoleAssignmentRead, from the loop over    *)
(* the pages of teams assigned to the role.  pages is what the server      *)
(* holds: page p of it is the answer to a request for page p, as the set   *)
(* of the slugs of its teams, and NextPage of that answer is p + 1, or 0   *)
(* for the last page.  A request for page 0 is a request for page 1.       *)
(***************************************************************************)
MaxPages == 3

Slugs == {"platform", "security"}

\* d.Id() of the resource read: team_id:role_id
ResourceId == "platform:8"

ErrRequest == "GET orgs/o/organization-roles/8/teams: 500"

PageLists == UNION {[1..n -> SUBSET Slugs] : n \in 1..MaxPages}

PageOf(optPage) == IF optPage = 0 THEN 1 ELSE optPage

\* resp.NextPage of the answer to a request for page p
NextPage(p) == IF p < Len(pages) THEN p + 1 ELSE 0

\* a team of an earlier page forgotten when the page has no team with the slug
FindTeam_ForgetsEarlierPage(teams, slug, found) ==
    IF slug \in teams THEN [isNil |-> FALSE, slug |-> slug] ELSE NilPtr

\* the loop over the teams of one page: foundTeam after it
FindTeam(teams, slug, found) ==
    IF slug \in teams THEN [isNil |-> FALSE, slug |-> slug] ELSE found

\* the read function at its loop, for some resource and some server content
InitRead ==
    /\ InitCall
    /\ encoderFails = FALSE
    /\ pc = "list"
    /\ pages \in PageLists
    /\ teamSlug \in Slugs
    /\ optionsPage = 0
    /\ foundTeam = NilPtr
    /\ id = ResourceId
    /\ readErr = NoErr
    /\ fetched = {}

\* one turn of the loop with a request that succeeds
ListTeamsAssignedToOrgRole ==
    /\ pc = "list"
    /\ LET p == PageOf(optionsPage)
       IN /\ fetched' = fetched \cup {p}
          /\ foundTeam' = FindTeam(pages[p], teamSlug, foundTeam)
          /\ IF NextPage(p) = 0
             THEN pc' = "after" /\ UNCHANGED optionsPage
             ELSE pc' = "list" /\ optionsPage' = NextPage(p)
    /\ UNCHANGED <<op, d, ret, called, arg, ruleset, encoderFails,
                   pages, teamSlug, id, readErr>>

\* a request that fails: the error is returned
ListTeamsFails ==
    /\ pc = "list"
    /\ readErr' = ErrRequest
    /\ pc' = "done"
    /\ UNCHANGED <<op, d, ret, called, arg, ruleset, encoderFails,
                   pages, teamSlug, optionsPage, foundTeam, id, fetched>>

\* after the loop: the ID is cleared when no team was found
RemoveIfNotFound ==
    /\ pc = "after"
    /\ id' = IF foundTeam.isNil THEN "" ELSE id
    /\ pc' = "done"
    /\ UNCHANGED <<op, d, ret, called, arg, ruleset, encoderFails,
                   pages, teamSlug, optionsPage, foundTeam, readErr, fetched>>

NextRead ==
    \/ ListTeamsAssignedToOrgRole
    \/ ListTeamsFails
    \/ RemoveIfNotFound

\* the function is not suspended: a step that can be taken is taken
SpecRead == InitRead /\ [][NextRead]_vars /\ WF_vars(NextRead)

(***************************************************************************)
(* The flattener and the round trip.                                       *)
(***************************************************************************)
\* the remote ruleset carries a ref-name condition
HasRefName(rs) == ~rs.isNil /\ ~rs.Conditions.isNil /\ ~rs.Conditions.RefName.isNil

Flattened == called = <<"flattenAndSetRulesetConditions">>

RoundTrip == called = <<"flattenAndSetRulesetConditions", "expandConditions">>

Strings(s) == {s[i] : i \in DOMAIN s}

\* C11: flattenAndSetRulesetConditions sets conditions to a list of one block
\* holding the remote include and exclude strings when the remote ruleset has
\* a ref-name condition, and to a list that is set and empty in every other
\* case, also when the remote conditions object is nil.
C11_FlattenSetsConditions ==
    Flattened =>
        /\ ret.err = NoErr
        /\ d.conditions.exists
        /\ HasRefName(ruleset) =>
             /\ Len(d.conditions.value) = 1
             /\ ~d.conditions.value[1].nil
             /\ d.conditions.value[1].include = Strings(ruleset.Conditions.RefName.Include)
             /\ d.conditions.value[1].exclude = Strings(ruleset.Conditions.RefName.Exclude)
        /\ ~HasRefName(ruleset) => d.conditions.value = <<>>

C11_Witness ==
    /\ Flattened
    /\ ~ruleset.isNil
    /\ ruleset.Conditions.isNil
    /\ Len(arg.d.conditions.value) = 1
    /\ d.conditions.exists
    /\ d.conditions.value = <<>>

\* C12: for a remote ref-name condition c, flattening c and then running
\* expandConditions on the configuration written returns a condition with the
\* include set and the exclude set of c; either side may be empty.
C12_ConditionsRoundTrip ==
    (RoundTrip /\ HasRefName(ruleset)) =>
        /\ ret.err = NoErr
        /\ ~ret.val.isNil
        /\ ret.val.Include = Strings(ruleset.Conditions.RefName.Include)
        /\ ret.val.Exclude = Strings(ruleset.Conditions.RefName.Exclude)

C12_Witness ==
    /\ RoundTrip
    /\ HasRefName(ruleset)
    /\ ruleset.Conditions.RefName.Include = <<"refs/heads/main">>
    /\ ruleset.Conditions.RefName.Exclude = <<>>
    /\ ~ret.val.isNil
    /\ ret.val.Include = {"refs/heads/main"}
    /\ ret.val.Exclude = {}

(***************************************************************************)
(* Encoding failures.                                                      *)
(***************************************************************************)
\* the configuration makes expandRules encode the parameters of a
\* required_deployments or of a pull_request entry
EncodesParameters(cfg) ==
    \/ /\ cfg.rule_required_deployments.exists
       /\ cfg.rule_required_deployments.value # {}
    \/ /\ cfg.rule_pull_request.exists
       /\ Len(cfg.rule_pull_request.value) = 1
       /\ ~cfg.rule_pull_request.value[1].nil

LastCalled == called[Len(called)]

\* C14 as stated: every build call and every flatten call leaves the
\* configuration object and the remote ruleset passed to it unchanged,
\* whether it returns an error or not.
C14_CallsWriteNothing ==
    op # "idle" => (d = arg.d /\ ruleset = arg.ruleset)

\* C14, amended: every call leaves the remote ruleset unchanged; the builders
\* leave the configuration unchanged, whether they return an error or not;
\* flattenAndSetRulesetConditions writes the conditions field of the
\* configuration and leaves every other field of it unchanged.
C14_OnlyFlattenWritesConditions ==
    op # "idle" =>
        /\ ruleset = arg.ruleset
        /\ LastCalled # "flattenAndSetRulesetConditions" => d = arg.d
        /\ LastCalled = "flattenAndSetRulesetConditions" =>
             /\ DOMAIN d = DOMAIN arg.d
             /\ \A k \in DOMAIN d \ {"conditions"} : d[k] = arg.d[k]

C14_Witness ==
    /\ Flattened
    /\ HasRefName(ruleset)
    /\ ~arg.d.conditions.exists
    /\ d.conditions.exists
    /\ d # arg.d
    /\ ruleset = arg.ruleset

(***************************************************************************)
(* expandConditions on empty, absent and nil inputs.                       *)
(***************************************************************************)
ExpandedConditions == op = "expandConditions"

NoCondition == ret = [val |-> NilPtr, err |-> NoErr]

\* C15: expandConditions returns "no condition" without error both for an
\* absent conditions block and for a block list that is set and empty, so
\* expandConditions after the flattener, for a remote ruleset without a
\* ref-name condition, returns "no condition"; for one block whose include and
\* exclude are both empty it returns a present condition with two empty sets.
C15_EmptyListIsAbsent ==
    ExpandedConditions =>
        /\ ~d.conditions.exists => NoCondition
        /\ (d.conditions.exists /\ d.conditions.value = <<>>) => NoCondition
        /\ (RoundTrip /\ ~HasRefName(ruleset)) => NoCondition
        /\ (/\ d.conditions.exists
            /\ Len(d.conditions.value) = 1
            /\ ~d.conditions.value[1].nil
            /\ d.conditions.value[1].include = {}
            /\ d.conditions.value[1].exclude = {}) =>
               /\ ret.err = NoErr
               /\ ret.val = [isNil |-> FALSE, Include |-> {}, Exclude |-> {}]

C15_Witness ==
    /\ RoundTrip
    /\ ~HasRefName(ruleset)
    /\ d.conditions.exists
    /\ d.conditions.value = <<>>
    /\ NoCondition

\* C16: expandConditions makes the duplicate check before the nil check: a
\* list of exactly one nil element returns "no condition" without error, a
\* list of two or more elements returns the duplicate-conditions error and no
\* condition, also when its first element or every element is nil.
C16_DuplicateCheckBeforeNilCheck ==
    (ExpandedConditions /\ d.conditions.exists) =>
        /\ (Len(d.conditions.value) = 1 /\ d.conditions.value[1].nil) => NoCondition
        /\ Len(d.conditions.value) >= 2 =>
             ret = [val |-> NilPtr, err |-> ErrDuplicateConditions]

C16_Witness ==
    /\ ExpandedConditions
    /\ d.conditions.exists
    /\ Len(d.conditions.value) = 2
    /\ \A i \in 1..2 : d.conditions.value[i].nil
    /\ ret.err = ErrDuplicateConditions

(***************************************************************************)
(* The parts of a status-check token.                                      *)
(***************************************************************************)
BuiltRules == op \in {"expandRules", "buildRulesetRequest"}

\* C17: the split of a status-check token at its first ':' has one part for a
\* token without ':' and two parts for every other token, so that expandRules
\* and buildRulesetRequest never return the could-not-parse-check error.
C17_ParseCheckErrorUnreachable ==
    BuiltRules =>
        /\ ret.err # ErrParseCheck
        /\ \A t \in StatusCheckSet(d) :
             Len(SplitN2(t, ":")) = IF HasColon(t) THEN 2 ELSE 1

C17_Witness ==
    /\ op = "expandRules"
    /\ ReadsStatusCheckBlock(d)
    /\ <<"a", ":", "1", ":", "2">> \in TheBlock.required_status_checks
    /\ ret.err = ErrIntegrationId
    /\ ret.val.isNil

(***************************************************************************)
(* The parameters of the entries.                                          *)
(***************************************************************************)
StructuredKinds == {"required_deployments", "pull_request", "required_status_checks"}

\* the fields of the parameter record of each structured kind
ParameterFields ==
    [required_deployments |-> {"required_deployment_environments"},
     pull_request |-> {"dismiss_stale_reviews_on_push", "require_code_owner_review",
                       "require_last_push_approval", "required_approving_review_count",
                       "required_review_thread_resolution"},
     required_status_checks |-> {"required_status_checks",
                                 "strict_required_status_checks_policy"}]

\* C18: in every rules list expandRules returns, an entry has no parameters
\* exactly when its kind is one of the five toggle kinds, and an entry of kind
\* required_deployments, pull_request or required_status_checks has the
\* parameter record of its own kind.
C18_ParametersByKind ==
    (op = "expandRules" /\ ret.err = NoErr) =>
        \A i \in 1..Len(Returned) :
            LET e == Returned[i]
            IN /\ e.Type \in ToggleKinds \cup StructuredKinds
               /\ e.Parameters.isNil <=> e.Type \in ToggleKinds
               /\ e.Type \in StructuredKinds =>
                    DOMAIN e.Parameters.json = ParameterFields[e.Type]

C18_Witness ==
    /\ op = "expandRules"
    /\ ret.err = NoErr
    /\ \E i, j, k \in 1..Len(Returned) :
         /\ Returned[i].Type = "non_fast_forward"
         /\ Returned[i].Parameters.isNil
         /\ Returned[j].Type = "required_deployments"
         /\ ~Returned[j].Parameters.isNil
         /\ Returned[k].Type = "required_status_checks"
         /\ Returned[k].Parameters.json.strict_required_status_checks_policy

(***************************************************************************)
(* The read of a team's role assignment.                                   *)
(***************************************************************************)
\* the team of the resource is on a page that was fetched
OnFetchedPage == \E p \in fetched : teamSlug \in pages[p]

ReadReturned == pc = "done"

\* the pages are requested in their order, each one once, none left out
PagesInOrder ==
    /\ fetched = 1..Cardinality(fetched)
    /\ pc = "list" => /\ PageOf(optionsPage) = Cardinality(fetched) + 1
                      /\ PageOf(optionsPage) <= Len(pages)
    /\ pc = "after" => fetched = 1..Len(pages)

ReadOutcome ==
    /\ ~ReadReturned => id = ResourceId
    /\ (ReadReturned /\ readErr = NoErr) =>
         /\ fetched = 1..Len(pages)
         /\ id = "" <=> ~OnFetchedPage
         /\ id # "" => id = ResourceId
    /\ (ReadReturned /\ readErr # NoErr) =>
         /\ readErr = ErrRequest
         /\ id = ResourceId

\* C19: the read requests the pages one after another, following NextPage until
\* an answer has NextPage = 0 or a request fails; it returns in every run; when
\* no request failed it has fetched every page and has cleared the ID exactly
\* when the team's slug is on none of them, on the last page or on an earlier
\* one; when a request failed it returns that error and the ID is unchanged.
C19_ReadFollowsPages ==
    /\ [](PagesInOrder /\ ReadOutcome)
    /\ <>ReadReturned

C19_Witness ==
    /\ ReadReturned
    /\ readErr = NoErr
    /\ Len(pages) = 3
    /\ teamSlug \in pages[1]
    /\ teamSlug \notin pages[2]
    /\ teamSlug \notin pages[3]
    /\ fetched = {1, 2, 3}
    /\ id = ResourceId

====
